---- MODULE Spec2Model ----
(***************************************************************************)
(* A model of synthesizer/sample.py: the Sample buffer with its in-place   *)
(* transforms, and the Output playback engine with its worker thread.      *)
(*                                                                         *)
(* Representation.  A Sample's frames are a sequence of integer sample     *)
(* values, one per channel-sample, interleaved as in the byte buffer; the  *)
(* byte length of the buffer is Len(frames) * samplewidth.  The field      *)
(* `none` says that the attribute holds None instead of a buffer.  Times   *)
(* in seconds, factors and volumes are exact rationals [n, d] where the    *)
(* program computes with floats.  The machine is little-endian (the        *)
(* byteswap branches are not taken).                                       *)
(***************************************************************************)
EXTENDS Integers, Sequences, FiniteSets, TLC

\* ------------------------------------------------------------------ bounds
\* Longest buffer, in sample values, that the Sample actions build.
MaxLen == 4
\* Largest time argument, in half seconds.
MaxTime == 2
\* Number of calls made on one Sample.
MaxOps == 2
\* Bits per byte of a sample value.  The program's bytes have 8 bits; the
\* model's integers have 32, too few for the products of 32-bit samples, so
\* the model's samples of width w have ByteBits * w bits.
ByteBits == 2
\* Capacity of the Output's queue in the model (the default is 100).
QueueSize == 2
\* Serial numbers handed out by one Output: one for each call made on it,
\* and one for each Sample of a list given to play_samples.
MaxItems == 3

\* The significant bits of a float: the program's doubles have 53, the model's
\* floats have as many as leave the rounding of a quotient visible within the
\* model's sample values.
FloatBits == 16

\* The number of calls made on one LevelMeter.
MaxFragments == 4

\* --------------------------------------------------------- program constants
norm_samplerate == 44100
norm_nchannels == 2
norm_samplewidth == 2
global_amplification == 26000

\* ------------------------------------------------------------------ helpers
Min(a, b) == IF a <= b THEN a ELSE b

Max(a, b) == IF a >= b THEN a ELSE b

Abs(a) == IF a >= 0 THEN a ELSE -a

\* int(n / d) for d > 0: Python's int() truncates toward zero.
Trunc(n, d) == IF n >= 0 THEN n \div d ELSE -((-n) \div d)

\* math.floor(n / d) for d > 0.
Floor(n, d) == n \div d

Zeros(n) == [i \in 1..Max(n, 0) |-> 0]

\* A Python slice bound i on a buffer of n items, clamped to 0..n.
PyIdx(n, i) == IF i < 0 THEN Max(n + i, 0) ELSE Min(i, n)

\* seq[a:b], seq[a:] and seq[:b] as Python evaluates them.
Slice(seq, a, b) == SubSeq(seq, PyIdx(Len(seq), a) + 1, PyIdx(Len(seq), b))

SliceFrom(seq, a) == SubSeq(seq, PyIdx(Len(seq), a) + 1, Len(seq))

SliceTo(seq, b) == SubSeq(seq, 1, PyIdx(Len(seq), b))

\* --------------------------------------------------------------- PCM kernel
\* The audioop functions the Sample methods call, on sequences of sample values.
MaxVal(w) == 2^(ByteBits * w - 1) - 1

MinVal(w) == -MaxVal(w) - 1

\* audioop's fbound: clip to the signed range of w bytes.
Fbound(v, w) == IF v > MaxVal(w) THEN MaxVal(w) ELSE IF v < MinVal(w) THEN MinVal(w) ELSE v

\* audioop.add(f1, f2, w) for buffers of equal length: the clipped sum.
AudioAdd(f1, f2, w) == [i \in 1..Len(f1) |-> Fbound(f1[i] + f2[i], w)]

\* audioop.max(frames, w): the largest absolute sample value (0 for an empty buffer).
AudioMax(fr) == IF fr = <<>> THEN 0 ELSE CHOOSE m \in {Abs(fr[i]) : i \in 1..Len(fr)} : \A j \in 1..Len(fr) : Abs(fr[j]) <= m

\* audioop.lin2lin(frames, w, w2): through the 32-bit value, shifting.
AudioLin2Lin(fr, w, w2) == [i \in 1..Len(fr) |-> IF w2 >= w THEN fr[i] * 2^(ByteBits * (w2 - w)) ELSE Floor(fr[i], 2^(ByteBits * (w - w2)))]

\* audioop.tomono(frames, w, lf, rf) for a whole number of stereo frames.
AudioToMono(fr, w, lf, rf) == [i \in 1..(Len(fr) \div 2) |-> Fbound(Floor(fr[2 * i - 1] * lf.n * rf.d + fr[2 * i] * rf.n * lf.d, lf.d * rf.d), w)]

\* audioop.tostereo(frames, w, lf, rf).
AudioToStereo(fr, w, lf, rf) == [i \in 1..(2 * Len(fr)) |-> IF i % 2 = 1 THEN Fbound(Floor(fr[(i + 1) \div 2] * lf.n, lf.d), w) ELSE Fbound(Floor(fr[i \div 2] * rf.n, rf.d), w)]

RECURSIVE Gcd(_, _)
Gcd(a, b) == IF b = 0 THEN a ELSE Gcd(b, a % b)

\* audioop.ratecv(frames, w, c, inrate, outrate, None)[0], weightA = 1 and
\* weightB = 0: linear interpolation between the previous and the current
\* input frame.  fr holds whole frames of c channels; the rates are already
\* divided by their gcd.  prv and cur are the 4-byte values of the previous
\* and current frame, d the position counter, k the next input frame.
RECURSIVE RateCvLoop(_, _, _, _, _, _, _, _, _)
RateCvLoop(fr, w, c, inr, outr, d, prv, cur, k) ==
    IF d < 0
    THEN IF k > Len(fr) \div c
         THEN <<>>
         ELSE RateCvLoop(fr, w, c, inr, outr, d + outr, cur,
                         [ch \in 1..c |-> fr[(k - 1) * c + ch] * 2^(ByteBits * (4 - w))], k + 1)
    ELSE [ch \in 1..c |-> Floor(Trunc(prv[ch] * d + cur[ch] * (outr - d), outr), 2^(ByteBits * (4 - w)))]
         \o RateCvLoop(fr, w, c, inr, outr, d - inr, prv, cur, k)

AudioRateCv(fr, w, c, inrate, outrate) ==
    LET g == Gcd(inrate, outrate)
    IN  RateCvLoop(fr, w, c, inrate \div g, outrate \div g, -(outrate \div g),
                   [ch \in 1..c |-> 0], [ch \in 1..c |-> 0], 1)

\* ------------------------------------------------------------------- Sample
\* Exact rationals in lowest terms: a time in seconds, a factor or a volume.
R(n, d) == LET g == Gcd(Abs(n), Abs(d)) IN IF g = 0 THEN [n |-> n, d |-> d] ELSE [n |-> n \div g, d |-> d \div g]

\* t half seconds.
T(t) == R(t, 2)

RSub(a, b) == R(a.n * b.d - b.n * a.d, a.d * b.d)

RAdd(a, b) == R(a.n * b.d + b.n * a.d, a.d * b.d)

RMul(a, b) == R(a.n * b.n, a.d * b.d)

RLess(a, b) == a.n * b.d < b.n * a.d

RMin(a, b) == IF RLess(b, a) THEN b ELSE a

RMax(a, b) == IF RLess(a, b) THEN b ELSE a

\* A positive n/d brought between 2^(FloatBits-1) and 2^FloatBits by powers
\* of two: the triple <<n', d', e>> with n/d = n'/d' * 2^e.
RECURSIVE Normalized(_, _, _)
Normalized(n, d, e) ==
    IF n \div d >= 2^FloatBits THEN Normalized(n, 2 * d, e + 1)
    ELSE IF n \div d >= 2^(FloatBits - 1) THEN <<n, d, e>>
    ELSE IF d % 2 = 0 THEN Normalized(n, d \div 2, e - 1)
    ELSE Normalized(2 * n, d, e - 1)

\* The float nearest to n/d, d > 0: the mantissa is rounded to FloatBits bits,
\* a tie going to the even mantissa. This is the result of a float division
\* n / d and of a float product whose exact value is n/d.
RoundFloat(n, d) ==
    IF n = 0 THEN R(0, 1)
    ELSE LET N == Normalized(Abs(n), d, 0)
             q == N[1] \div N[2]
             r == N[1] % N[2]
             m == IF 2 * r > N[2] \/ (2 * r = N[2] /\ q % 2 = 1) THEN q + 1 ELSE q
             sign == IF n < 0 THEN -1 ELSE 1
         IN  IF N[3] >= 0 THEN R(sign * m * 2^N[3], 1) ELSE R(sign * m, 2^(-N[3]))

\* audioop.mul(frames, w, factor): floor(fbound(val * factor)), the product
\* being a float product.
AudioMul(fr, w, f) == [i \in 1..Len(fr) |-> Fbound(Floor(RoundFloat(fr[i] * f.n, f.d).n, RoundFloat(fr[i] * f.n, f.d).d), w)]

\* The outcome of a call: the object as the call leaves it, and the exception
\* it raised ("" when it returned).
Ok(s) == [ok |-> TRUE, exc |-> "", s |-> s]

Err(s, e) == [ok |-> FALSE, exc |-> e, s |-> s]

\* Sample(): a new empty sample in the default format.
NewSample == [frames |-> <<>>, none |-> FALSE, samplewidth |-> norm_samplewidth, samplerate |-> norm_samplerate, nchannels |-> norm_nchannels, locked |-> FALSE]

\* The assignment self.__frames = None, and the assignment of a buffer.
SetNone(s) == [s EXCEPT !.frames = <<>>, !.none = TRUE]

SetFrames(s, fr) == [s EXCEPT !.frames = fr, !.none = FALSE]

SameFormatButRate(s, other) == s.samplewidth = other.samplewidth /\ s.nchannels = other.nchannels

SameFormat(s, other) == s.samplewidth = other.samplewidth /\ s.samplerate = other.samplerate /\ s.nchannels = other.nchannels

\* Sample.from_raw_frames(frames, samplewidth, samplerate, numchannels); the
\* rate is a rational, the stored rate is int(samplerate).
from_raw_frames(fr, w, rate, c) ==
    IF ~(1 <= c /\ c <= 2) THEN Err(NewSample, "AssertionError")
    ELSE IF ~(2 <= w /\ w <= 4) THEN Err(NewSample, "AssertionError")
    ELSE IF ~(rate.n > rate.d) THEN Err(NewSample, "AssertionError")
    ELSE Ok([frames |-> fr, none |-> FALSE, samplewidth |-> w, samplerate |-> Trunc(rate.n, rate.d), nchannels |-> c, locked |-> FALSE])

\* The samplerate property's setter.
set_samplerate(s, rate) ==
    IF ~(rate.n > 0) THEN Err(s, "AssertionError")
    ELSE Ok([s EXCEPT !.samplerate = Trunc(rate.n, rate.d)])

\* Sample.duration, in seconds; the caller has excluded None and rate 0.
duration(s) == R(Len(s.frames), s.samplerate * s.nchannels)

\* What reading self.duration raises, "" when it returns.
duration_exc(s) == IF s.none THEN "TypeError" ELSE IF s.samplerate = 0 THEN "ZeroDivisionError" ELSE ""

\* Sample.frame_idx(seconds), counted in sample values: the byte index is
\* this times samplewidth.
frame_idx(s, sec) == s.nchannels * Trunc(s.samplerate * sec.n, sec.d)

copy_from(s, other) ==
    IF s.locked THEN Err(s, "AssertionError")
    ELSE Ok([s EXCEPT !.frames = other.frames, !.none = other.none, !.samplewidth = other.samplewidth, !.samplerate = other.samplerate, !.nchannels = other.nchannels])

\* Sample.copy(): Sample().copy_from(self).
copy(s) == copy_from(NewSample, s).s

lock(s) == Ok([s EXCEPT !.locked = TRUE])

\* Sample.load_wav on a file with header (nchannels, sampwidth, framerate) and data fr.
load_wav(s, wav) ==
    IF s.locked THEN Err(s, "AssertionError")
    ELSE IF ~(2 <= wav.samplewidth /\ wav.samplewidth <= 4) THEN Err(s, "IOError")
    ELSE IF ~(1 <= wav.nchannels /\ wav.nchannels <= 2) THEN Err(s, "IOError")
    ELSE Ok([s EXCEPT !.frames = wav.frames, !.none = FALSE, !.nchannels = wav.nchannels, !.samplerate = wav.samplerate, !.samplewidth = wav.samplewidth])

\* Sample(wave_file): load_wav, then the constructor's assertions.
init_wave_file(wav) ==
    LET r == load_wav(NewSample, wav)
    IN  IF ~r.ok THEN r
        ELSE IF ~(r.s.samplerate > 1) THEN Err(r.s, "AssertionError")
        ELSE r

resample(s, rate) ==
    IF s.locked THEN Err(s, "AssertionError")
    ELSE IF rate = s.samplerate THEN Ok(s)
    ELSE IF s.none THEN Err(s, "TypeError")
    ELSE IF Len(s.frames) % s.nchannels # 0 THEN Err(s, "error")
    ELSE IF s.samplerate <= 0 \/ rate <= 0 THEN Err(s, "error")
    ELSE Ok([s EXCEPT !.frames = AudioRateCv(s.frames, s.samplewidth, s.nchannels, s.samplerate, rate), !.samplerate = rate])

\* Sample.speed(speed), speed a rational.
speed(s, sp) ==
    IF s.locked THEN Err(s, "AssertionError")
    ELSE IF ~(sp.n > 0) THEN Err(s, "AssertionError")
    ELSE IF sp.n = sp.d THEN Ok(s)
    ELSE IF s.none THEN Err(s, "TypeError")
    ELSE IF Len(s.frames) % s.nchannels # 0 THEN Err(s, "error")
    ELSE IF Trunc(s.samplerate * sp.n, sp.d) <= 0 \/ s.samplerate <= 0 THEN Err(s, "error")
    ELSE Ok([s EXCEPT !.frames = AudioRateCv(s.frames, s.samplewidth, s.nchannels, Trunc(s.samplerate * sp.n, sp.d), s.samplerate)])

amplify(s, factor) ==
    IF s.locked THEN Err(s, "AssertionError")
    ELSE IF s.none THEN Err(s, "TypeError")
    ELSE Ok([s EXCEPT !.frames = AudioMul(s.frames, s.samplewidth, factor)])

amplify_max(s) ==
    IF s.locked THEN Err(s, "AssertionError")
    ELSE IF s.none THEN Err(s, "TypeError")
    ELSE IF AudioMax(s.frames) > 0
         THEN Ok([s EXCEPT !.frames = AudioMul(s.frames, s.samplewidth, RoundFloat(MaxVal(s.samplewidth) - 1, AudioMax(s.frames)))])
         ELSE Ok(s)

\* Sample.get_32bit_frames(scale_amplitude), the caller has excluded None.
get_32bit_frames(s, scale_amplitude) ==
    IF s.samplewidth = 4 THEN s.frames
    ELSE IF scale_amplitude THEN AudioLin2Lin(s.frames, s.samplewidth, 4)
    ELSE AudioMul(AudioLin2Lin(s.frames, s.samplewidth, 4), 4, R(1, 2^(ByteBits * Abs(s.samplewidth - 4))))

make_32bit(s, scale_amplitude) ==
    IF s.locked THEN Err(s, "AssertionError")
    ELSE IF s.none /\ s.samplewidth # 4 THEN Err(s, "TypeError")
    ELSE IF s.none THEN Ok(s)
    ELSE Ok([s EXCEPT !.frames = get_32bit_frames(s, scale_amplitude), !.samplewidth = 4])

\* The conversion of make_16bit, after the optional amplify_max.
make_16bit_convert(s) ==
    IF s.samplewidth > 2
    THEN IF s.none THEN Err(s, "TypeError")
         ELSE Ok([s EXCEPT !.frames = AudioLin2Lin(s.frames, s.samplewidth, 2), !.samplewidth = 2])
    ELSE Ok(s)

make_16bit(s, maximize_amplitude) ==
    IF s.locked THEN Err(s, "AssertionError")
    ELSE IF ~(s.samplewidth >= 2) THEN Err(s, "AssertionError")
    ELSE IF maximize_amplitude THEN (IF amplify_max(s).ok THEN make_16bit_convert(amplify_max(s).s) ELSE amplify_max(s))
    ELSE make_16bit_convert(s)

clip(s, start_seconds, end_seconds) ==
    IF s.locked THEN Err(s, "AssertionError")
    ELSE IF ~RLess(start_seconds, end_seconds) THEN Err(s, "AssertionError")
    ELSE IF s.none THEN Err(s, "TypeError")
    ELSE Ok([s EXCEPT !.frames = Slice(s.frames, frame_idx(s, start_seconds), frame_idx(s, end_seconds))])

\* Sample.split(seconds): `s` is what self keeps, `ret` the returned sample.
split(s, seconds) ==
    IF s.locked THEN [ok |-> FALSE, exc |-> "AssertionError", s |-> s, ret |-> s]
    ELSE IF s.none THEN [ok |-> FALSE, exc |-> "TypeError", s |-> s, ret |-> s]
    ELSE IF frame_idx(s, seconds) # Len(s.frames)
         THEN [ok |-> TRUE, exc |-> "", s |-> [s EXCEPT !.frames = SliceTo(s.frames, frame_idx(s, seconds))],
               ret |-> [copy(s) EXCEPT !.frames = SliceFrom(s.frames, frame_idx(s, seconds))]]
         ELSE LET r == from_raw_frames(<<>>, s.samplewidth, R(s.samplerate, 1), s.nchannels)
              IN  [ok |-> r.ok, exc |-> r.exc, s |-> s, ret |-> r.s]

add_silence(s, seconds, at_start) ==
    IF s.locked THEN Err(s, "AssertionError")
    ELSE IF s.none THEN Err(s, "TypeError")
    ELSE IF at_start THEN Ok([s EXCEPT !.frames = Zeros(frame_idx(s, seconds)) \o s.frames])
    ELSE Ok([s EXCEPT !.frames = s.frames \o Zeros(frame_idx(s, seconds))])

join(s, other) ==
    IF s.locked THEN Err(s, "AssertionError")
    ELSE IF ~SameFormat(s, other) THEN Err(s, "AssertionError")
    ELSE IF s.none \/ other.none THEN Err(s, "TypeError")
    ELSE Ok([s EXCEPT !.frames = s.frames \o other.frames])

delay(s, seconds, keep_length) ==
    IF s.locked THEN Err(s, "AssertionError")
    ELSE IF seconds.n > 0
    THEN IF keep_length
         THEN LET r == add_silence(s, seconds, TRUE)
              IN  IF ~r.ok THEN r ELSE Ok([r.s EXCEPT !.frames = SliceTo(r.s.frames, Len(s.frames))])
         ELSE add_silence(s, seconds, TRUE)
    ELSE IF seconds.n < 0
    THEN IF keep_length
         THEN LET r == add_silence(s, R(-seconds.n, seconds.d), FALSE)
              IN  IF ~r.ok THEN r ELSE Ok([r.s EXCEPT !.frames = SliceFrom(r.s.frames, Len(r.s.frames) - Len(s.frames))])
         ELSE IF s.none THEN Err(s, "TypeError")
         ELSE Ok([s EXCEPT !.frames = SliceFrom(s.frames, frame_idx(s, R(-seconds.n, seconds.d)))])
    ELSE Ok(s)

\* Whether array.array accepts every value of fr for the type code of width w.
FitsArray(fr, w) == \A i \in 1..Len(fr) : MinVal(w) <= fr[i] /\ fr[i] <= MaxVal(w)

\* The faded chunk of fadeout: sample i (from 0) of numsamples is multiplied
\* by 1 - (i/numsamples) * (1 - target_volume), the product passed to int().
FadeOutChunk(chunk, vol) == [k \in 1..Len(chunk) |-> Trunc(chunk[k] * (Len(chunk) * vol.d - (k - 1) * (vol.d - vol.n)), Len(chunk) * vol.d)]

fadeout(s, seconds, target_volume) ==
    IF s.locked THEN Err(s, "AssertionError")
    ELSE IF s.samplewidth = 3 THEN Err(s, "KeyError")
    ELSE IF duration_exc(s) # "" THEN Err(s, duration_exc(s))
    ELSE LET i == frame_idx(s, RSub(duration(s), RMin(seconds, duration(s))))
             faded == FadeOutChunk(SliceFrom(s.frames, i), target_volume)
         IN  IF ~FitsArray(faded, s.samplewidth) THEN Err(s, "OverflowError")
             ELSE Ok([s EXCEPT !.frames = SliceTo(s.frames, i) \o faded])

\* The faded chunk of fadein: sample i (from 0) of numsamples is multiplied
\* by i * (1 - start_volume) / numsamples + start_volume.
FadeInChunk(chunk, vol) == [k \in 1..Len(chunk) |-> Trunc(chunk[k] * ((k - 1) * (vol.d - vol.n) + vol.n * Len(chunk)), Len(chunk) * vol.d)]

fadein(s, seconds, start_volume) ==
    IF s.locked THEN Err(s, "AssertionError")
    ELSE IF s.samplewidth = 3 THEN Err(s, "KeyError")
    ELSE IF duration_exc(s) # "" THEN Err(s, duration_exc(s))
    ELSE LET i == frame_idx(s, RMin(seconds, duration(s)))
             faded == FadeInChunk(SliceTo(s.frames, i), start_volume)
         IN  IF ~FitsArray(faded, s.samplewidth) THEN Err(s, "OverflowError")
             ELSE Ok([s EXCEPT !.frames = faded \o SliceFrom(s.frames, i)])

mono(s, left_factor, right_factor) ==
    IF s.locked THEN Err(s, "AssertionError")
    ELSE IF s.nchannels = 1 THEN Ok(s)
    ELSE IF s.none THEN Err(s, "TypeError")
    ELSE IF Len(s.frames) % 2 # 0 THEN Err(s, "error")
    ELSE Ok([s EXCEPT !.frames = AudioToMono(s.frames, s.samplewidth, left_factor, right_factor), !.nchannels = 1])

left(s) ==
    IF s.locked THEN Err(s, "AssertionError")
    ELSE IF s.nchannels # 2 THEN Err(s, "AssertionError")
    ELSE mono(s, R(1, 1), R(0, 1))

right(s) ==
    IF s.locked THEN Err(s, "AssertionError")
    ELSE IF s.nchannels # 2 THEN Err(s, "AssertionError")
    ELSE mono(s, R(0, 1), R(1, 1))

mix(s, other, other_seconds, pad_shortest) ==
    IF s.locked THEN Err(s, "AssertionError")
    ELSE IF ~SameFormat(s, other) THEN Err(s, "AssertionError")
    ELSE IF s.none \/ other.none THEN Err(s, "TypeError")
    ELSE LET frames2 == IF other_seconds.n # 0 THEN SliceTo(other.frames, frame_idx(other, other_seconds)) ELSE other.frames
             n == IF pad_shortest THEN Max(Len(s.frames), Len(frames2)) ELSE 0
             f1 == s.frames \o Zeros(n - Len(s.frames))
             f2 == frames2 \o Zeros(n - Len(frames2))
         IN  IF Len(f1) # Len(f2) THEN Err(s, "error")
             ELSE Ok([s EXCEPT !.frames = AudioAdd(f1, f2, s.samplewidth)])

\* Sample._mix_grow_if_needed
mix_never_grows(fr, start_frame_idx, other_length) == fr

mix_grow_if_needed(fr, start_frame_idx, other_length) == fr \o Zeros(start_frame_idx + other_length - Len(fr))

mix_at(s, seconds, other, other_seconds) ==
    IF seconds.n = 0 THEN mix(s, other, other_seconds, TRUE)
    ELSE IF s.locked THEN Err(s, "AssertionError")
    ELSE IF ~SameFormat(s, other) THEN Err(s, "AssertionError")
    ELSE IF s.none \/ other.none THEN Err(s, "TypeError")
    ELSE LET start == frame_idx(s, seconds)
             other_frames == IF other_seconds.n # 0 THEN SliceTo(other.frames, frame_idx(other, other_seconds)) ELSE other.frames
             grown == mix_grow_if_needed(s.frames, start, Len(other_frames))
             pre == SliceTo(grown, start)
             to_mix == Slice(grown, start, start + Len(other_frames))
             post == SliceFrom(grown, start + Len(other_frames))
         IN  IF Len(to_mix) # Len(other_frames) THEN Err(SetNone(s), "error")
             ELSE Ok([s EXCEPT !.frames = pre \o AudioAdd(to_mix, other_frames, s.samplewidth) \o post])

\* Sample.stereo for a mono sample: audioop.tostereo.
stereo_from_mono(s, left_factor, right_factor) ==
    IF s.none THEN Err(s, "TypeError")
    ELSE Ok([s EXCEPT !.frames = AudioToStereo(s.frames, s.samplewidth, left_factor, right_factor), !.nchannels = 2])

\* Sample.stereo_mix(other, 'R', other_mix_factor), as Sample.stereo calls it:
\* mix_at = 0.0 and other_seconds = None.
stereo_mix_R(s, other, other_mix_factor) ==
    IF s.locked THEN Err(s, "AssertionError")
    ELSE IF other.nchannels # 1 \/ other.samplerate # s.samplerate \/ other.samplewidth # s.samplewidth THEN Err(s, "AssertionError")
    ELSE LET me == IF s.nchannels = 1 THEN stereo_from_mono(s, R(1, 1), R(0, 1)) ELSE Ok(s)
             oth == stereo_from_mono(copy(other), R(0, 1), other_mix_factor)
         IN  IF ~me.ok THEN me
             ELSE IF ~oth.ok THEN Err(me.s, oth.exc)
             ELSE mix_at(me.s, R(0, 1), oth.s, R(0, 1))

stereo(s, left_factor, right_factor) ==
    IF s.locked THEN Err(s, "AssertionError")
    ELSE IF s.nchannels = 2
    THEN LET rgt == right(copy(s))
             lft == IF left(s).ok THEN amplify(left(s).s, left_factor) ELSE left(s)
         IN  IF ~rgt.ok THEN Err(s, rgt.exc)
             ELSE IF ~lft.ok THEN lft
             ELSE stereo_mix_R(lft.s, rgt.s, right_factor)
    ELSE stereo_from_mono(s, left_factor, right_factor)

\* Sample.pan(panning, lfo) with an LFO that yields the constant `panning`
\* for every frame.
pan_lfo(s, panning) ==
    IF s.nchannels = 2
    THEN LET rgt == right(copy(s))
             lft == left(copy(s))
             n == Len(rgt.s.frames)
             st == [i \in 1..(2 * n) |->
                      IF i % 2 = 1 THEN Trunc(lft.s.frames[(i + 1) \div 2] * (panning.d - panning.n), 2 * panning.d)
                      ELSE Trunc(rgt.s.frames[i \div 2] * (panning.d + panning.n), 2 * panning.d)]
         IN  IF ~rgt.ok THEN Err(s, rgt.exc)
             ELSE IF s.samplewidth = 3 THEN Err(s, "KeyError")
             ELSE IF ~(s.samplerate > 1) THEN Err(s, "AssertionError")
             ELSE Ok([s EXCEPT !.frames = st])
    ELSE IF s.samplewidth = 3 THEN Err(s, "KeyError")
    ELSE LET m == IF s.none THEN <<>> ELSE s.frames
             st == [i \in 1..(2 * Len(m)) |->
                      IF i % 2 = 1 THEN Trunc(m[(i + 1) \div 2] * (panning.d - panning.n), 2 * panning.d)
                      ELSE Trunc(m[i \div 2] * (panning.d + panning.n), 2 * panning.d)]
         IN  IF ~(s.samplerate > 1) THEN Err([s EXCEPT !.nchannels = 2], "AssertionError")
             ELSE Ok([s EXCEPT !.frames = st, !.none = FALSE, !.nchannels = 2])

pan(s, panning, lfo) ==
    IF s.locked THEN Err(s, "AssertionError")
    ELSE IF ~lfo THEN stereo(s, R(panning.d - panning.n, 2 * panning.d), R(panning.d + panning.n, 2 * panning.d))
    ELSE pan_lfo(s, panning)

\* The loop of Sample.echo: k echos are still to be mixed, `ech` is the last
\* echo, echo_amp its next factor, length the offset of the last echo.
RECURSIVE EchoLoop(_, _, _, _, _, _, _)
EchoLoop(s, ech, echo_amp, length, dly, decay, k) ==
    IF k = 0 THEN Ok(s)
    ELSE IF RLess(echo_amp, R(1, 2^(ByteBits * s.samplewidth - 1))) THEN Ok(s)
    ELSE LET e2 == amplify(copy(ech), echo_amp)
             r == mix_at(s, RAdd(length, dly), e2.s, R(0, 1))
         IN  IF ~r.ok THEN r
             ELSE EchoLoop(r.s, e2.s, RMul(echo_amp, decay), RAdd(length, dly), dly, decay, k - 1)

echo(s, length, amount, dly, decay) ==
    IF s.locked THEN Err(s, "AssertionError")
    ELSE IF amount > 0
    THEN IF duration_exc(s) # "" THEN Err(s, duration_exc(s))
         ELSE LET len0 == RMax(R(0, 1), RSub(duration(s), length))
                  ech == [copy(s) EXCEPT !.frames = SliceFrom(s.frames, frame_idx(s, len0))]
              IN  EchoLoop(s, ech, decay, len0, dly, decay, amount)
    ELSE Ok(s)

\* The second half of Sample.envelope: the fades of A (self), D and R, and
\* the joins.  An exception of a fade of D or R leaves self as it is then.
envelope_fade(A, D, S, Rl, attack, decay, sustainlevel, release) ==
    LET fA == IF attack.n > 0 THEN fadein(A, attack, R(0, 1)) ELSE Ok(A)
        fD == IF decay.n > 0 THEN fadeout(D, decay, sustainlevel) ELSE Ok(D)
        fR == IF release.n > 0 THEN fadeout(Rl, release, R(0, 1)) ELSE Ok(Rl)
    IN  IF ~fA.ok THEN fA
        ELSE IF ~fD.ok THEN Err(fA.s, fD.exc)
        ELSE IF ~fR.ok THEN Err(fA.s, fR.exc)
        ELSE LET jD == join(fA.s, fD.s)
                 jS == IF jD.ok THEN join(jD.s, S) ELSE jD
             IN  IF jS.ok THEN join(jS.s, fR.s) ELSE jS

envelope(s, attack, decay, sustainlevel, release) ==
    IF s.locked THEN Err(s, "AssertionError")
    ELSE IF attack.n < 0 \/ decay.n < 0 \/ release.n < 0 THEN Err(s, "AssertionError")
    ELSE IF sustainlevel.n < 0 \/ sustainlevel.n > sustainlevel.d THEN Err(s, "AssertionError")
    ELSE LET sA == split(s, attack)
             sD == split(sA.ret, decay)
             S1 == IF sustainlevel.n < sustainlevel.d THEN amplify(sD.ret, sustainlevel).s ELSE sD.ret
             sS == split(S1, RSub(duration(S1), release))
         IN  IF ~sA.ok THEN Err(sA.s, sA.exc)
             ELSE IF ~sD.ok THEN Err(sA.s, sD.exc)
             ELSE IF duration_exc(S1) # "" THEN Err(sA.s, duration_exc(S1))
             ELSE IF ~sS.ok THEN Err(sA.s, sS.exc)
             ELSE envelope_fade(sA.s, sD.s, sS.s, sS.ret, attack, decay, sustainlevel, release)

\* --------------------------------------------------------------- LevelMeter
\* audioop.rms(frames, w): the integer square root of the mean square.
AudioRms(fr) == IF fr = <<>> THEN 0 ELSE LET RECURSIVE SumSq(_)
                                             SumSq(i) == IF i = 0 THEN 0 ELSE fr[i] * fr[i] + SumSq(i - 1)
                                             ms == SumSq(Len(fr)) \div Len(fr)
                                         IN  CHOOSE r \in 0..(ms + 1) : r * r <= ms /\ ms < (r + 1) * (r + 1)

\* max(20*log10((v+1)/maxvalue), -60) of __db_level, rounded down to a
\* multiple of 20 dB (10^(-1) and 10^(-2) are ratios of integers). maxvalue
\* is 2**(8*w-1), for the program's bytes of 8 bits; the model keeps the top
\* ByteBits bits of every byte, so v stands for v * 2^((8-ByteBits)*w).
Decibel(v, w) ==
    LET maxvalue == 2^(8 * w - 1)
        peak == v * 2^((8 - ByteBits) * w) + 1
    IN  IF peak >= maxvalue THEN R(0, 1)
        ELSE IF peak >= -Floor(-maxvalue, 10) THEN R(-20, 1)
        ELSE IF peak >= -Floor(-maxvalue, 100) THEN R(-40, 1)
        ELSE R(-60, 1)

\* Sample.__db_level(rms_mode): the pair (left, right); the caller has
\* excluded None.
db_level(s, rms_mode) ==
    LET lf == IF s.nchannels = 1 THEN s.frames ELSE AudioToMono(s.frames, s.samplewidth, R(1, 1), R(0, 1))
        rf == IF s.nchannels = 1 THEN s.frames ELSE AudioToMono(s.frames, s.samplewidth, R(0, 1), R(1, 1))
    IN  <<Decibel(IF rms_mode THEN AudioRms(lf) ELSE AudioMax(lf), s.samplewidth), Decibel(IF rms_mode THEN AudioRms(rf) ELSE AudioMax(rf), s.samplewidth)>>

\* LevelMeter.reset().
reset(m) == [m EXCEPT !.peak_left = m.lowest, !.peak_right = m.lowest, !.peak_left_hold = R(0, 1), !.peak_right_hold = R(0, 1), !.level_left = R(0, 1), !.level_right = R(0, 1), !.time = R(0, 1)]

\* LevelMeter(rms_mode, lowest); the constructor asserts -60 <= lowest < 0.
LevelMeter(rms_mode, lowest) == reset([rms |-> rms_mode, lowest |-> lowest, peak_left |-> lowest, peak_right |-> lowest, peak_left_hold |-> R(0, 1), peak_right_hold |-> R(0, 1), level_left |-> R(0, 1), level_right |-> R(0, 1), time |-> R(0, 1)])

\* One channel of LevelMeter.process: the peak and its hold time after a
\* fragment of `dur` seconds at `level`, the meter's time being `time` then.
HeldNoDecay(peak, hold, level, time, dur) == IF ~RLess(level, peak) THEN <<level, time>> ELSE <<peak, hold>>

Held(peak, hold, level, time, dur) ==
    LET lowered == IF RLess(R(2, 5), RSub(time, hold)) THEN RSub(peak, RMul(dur, R(30, 1))) ELSE peak
    IN  IF ~RLess(level, lowered) THEN <<level, time>> ELSE <<lowered, hold>>

\* LevelMeter.process(sample): the meter as the call leaves it.
process(m, s) ==
    IF s.none THEN [ok |-> FALSE, exc |-> "TypeError", m |-> m]
    ELSE IF s.samplerate = 0 THEN [ok |-> FALSE, exc |-> "ZeroDivisionError", m |-> m]
    ELSE LET lvl == <<RMax(db_level(s, m.rms)[1], m.lowest), RMax(db_level(s, m.rms)[2], m.lowest)>>
             now == RAdd(m.time, duration(s))
             L == Held(m.peak_left, m.peak_left_hold, lvl[1], now, duration(s))
             Rt == Held(m.peak_right, m.peak_right_hold, lvl[2], now, duration(s))
         IN  [ok |-> TRUE, exc |-> "", m |-> [m EXCEPT !.peak_left = L[1], !.peak_left_hold = L[2], !.peak_right = Rt[1], !.peak_right_hold = Rt[2], !.level_left = lvl[1], !.level_right = lvl[2], !.time = now]]

\* =================================================================== state
VARIABLES
    \* the Sample under test: its private attributes
    frames, frames_none, samplewidth, samplerate, nchannels, locked,
    \* "new" while the Sample is being constructed, "live" once a constructor
    \* has returned it, "failed" when the constructor raised
    pc,
    \* the last call made on the Sample, the exception it raised ("" when it
    \* returned), the other Sample passed to it, and the number of calls so far
    op, exc, other, nops,
    \* the Output: whether pyaudio could be imported, the worker's queue, the
    \* worker thread's position and its local variable `sample`
    pyaudio, queue, worker, sample,
    \* the caller threads: position, the call in progress, the last result
    pcs, call, res,
    \* what was written to the device stream, what winsound played, what was
    \* enqueued, which submissions wipe_queue removed, who holds _wipe_lock,
    \* whether close() has returned, whether a wipe_queue() has returned, and
    \* the number of samples submitted so far
    written, fallback, enq, wiped, wipe_lock, closed, wipe_returned, next_id,
    \* the outputter's attributes self.stream and self.audio: TRUE while they
    \* hold an open handle, FALSE once they are None (or never existed)
    stream, audio,
    \* a single call of a Sample method: the Sample before the call and the
    \* arguments of the call (the Sample's attributes then hold the result)
    before, args,
    \* the attributes of a LevelMeter
    meter

sampleVars == <<frames, frames_none, samplewidth, samplerate, nchannels, locked, pc, op, exc, other, nops>>

outVars == <<pyaudio, queue, worker, sample, pcs, call, res, written, fallback, enq, wiped, wipe_lock, closed, wipe_returned, next_id, stream, audio>>

vars == <<sampleVars, outVars, before, args, meter>>

\* The Sample under test as one record, and the assignment of one.
Self == [frames |-> frames, none |-> frames_none, samplewidth |-> samplewidth, samplerate |-> samplerate, nchannels |-> nchannels, locked |-> locked]

SetSelf(s) == frames' = s.frames /\ frames_none' = s.none /\ samplewidth' = s.samplewidth /\ samplerate' = s.samplerate /\ nchannels' = s.nchannels /\ locked' = s.locked

\* ----------------------------------------------------- inputs of the Sample
Times == {T(t) : t \in -1..MaxTime}

Factors == {R(0, 1), R(1, 2), R(-1, 1), R(2, 1)}

Volumes == {R(0, 1), R(1, 2)}

Pannings == {R(-1, 1), R(0, 1), R(1, 2)}

RateArgs == {R(0, 1), R(1, 2), R(1, 1), R(3, 2), R(2, 1), R(4, 1)}

Rates == {0, 1, 2, 4}

Speeds == {R(0, 1), R(1, 2), R(1, 1), R(2, 1)}

\* The buffer handed to a constructor: n sample values.
RawFrames(n) == [i \in 1..n |-> IF i % 2 = 1 THEN i + 2 ELSE -i]

\* Another Sample of n frames, to be mixed in, joined or copied from.
OtherSample(w, r, c, n) == [frames |-> [i \in 1..(n * c) |-> 2], none |-> FALSE, samplewidth |-> w, samplerate |-> r, nchannels |-> c, locked |-> FALSE]

\* The other Samples offered to a call on s: two of its format, and one each
\* that differs from it in the width, the rate or the number of channels.
Others(s) ==
    {OtherSample(s.samplewidth, s.samplerate, s.nchannels, n) : n \in 1..2}
    \cup {OtherSample(IF s.samplewidth = 2 THEN 4 ELSE 2, s.samplerate, s.nchannels, 1),
          OtherSample(s.samplewidth, IF s.samplerate = 2 THEN 4 ELSE 2, s.nchannels, 1),
          OtherSample(s.samplewidth, s.samplerate, 3 - s.nchannels, 1)}

\* The wav files offered to load_wav: header fields and data of one frame.
WavFiles == {[nchannels |-> c, samplewidth |-> w, samplerate |-> r, frames |-> RawFrames(c)] : c \in 2..3, w \in 1..2, r \in {1, 4}}

\* A time argument that addresses a position within the model's buffers.
Near(s, t) == -MaxLen <= frame_idx(s, t) /\ frame_idx(s, t) <= MaxLen

InitSample ==
    /\ frames = NewSample.frames /\ frames_none = NewSample.none
    /\ samplewidth = NewSample.samplewidth /\ samplerate = NewSample.samplerate
    /\ nchannels = NewSample.nchannels /\ locked = NewSample.locked
    /\ pc = "new" /\ op = "" /\ exc = "" /\ other = NewSample /\ nops = 0

\* ---------------------------------------------------- actions of the Sample
\* A constructor returns the Sample r.s, or raises.
Constructed(name, r) ==
    /\ pc = "new"
    /\ SetSelf(r.s) /\ pc' = (IF r.ok THEN "live" ELSE "failed")
    /\ op' = name /\ exc' = r.exc /\ other' = other /\ nops' = nops
    /\ UNCHANGED <<outVars, before, args, meter>>

\* A call on the live Sample leaves it as r.s and returns or raises r.exc.
Called(name, r, o) ==
    /\ pc = "live" /\ nops < MaxOps
    /\ Len(r.s.frames) <= MaxLen
    /\ SetSelf(r.s) /\ pc' = pc
    /\ op' = name /\ exc' = r.exc /\ other' = o /\ nops' = nops + 1
    /\ UNCHANGED <<outVars, before, args, meter>>

Construct == Constructed("Sample", Ok(NewSample))

FromRawFrames == \E w \in 1..5, c \in 0..3, rate \in RateArgs, n \in 0..MaxLen : n % Max(c, 1) = 0 /\ Constructed("from_raw_frames", from_raw_frames(RawFrames(n), w, rate, c))

InitWaveFile == \E wav \in WavFiles : Constructed("Sample", init_wave_file(wav))

Lock == Called("lock", lock(Self), NewSample)

SetSamplerate == \E rate \in RateArgs : Called("samplerate", set_samplerate(Self, rate), NewSample)

CopyFrom == \E o \in Others(Self) : Called("copy_from", copy_from(Self, o), o)

LoadWav == \E wav \in WavFiles : Called("load_wav", load_wav(Self, wav), NewSample)

Resample == \E rate \in Rates : Called("resample", resample(Self, rate), NewSample)

Speed == \E sp \in Speeds : Called("speed", speed(Self, sp), NewSample)

Amplify == \E f \in Factors : Called("amplify", amplify(Self, f), NewSample)

Make32bit == \E scale \in BOOLEAN : Called("make_32bit", make_32bit(Self, scale), NewSample)

Make16bit == \E maximize \in BOOLEAN : Called("make_16bit", make_16bit(Self, maximize), NewSample)

Clip == \E a \in Times, b \in Times : Near(Self, a) /\ Near(Self, b) /\ Called("clip", clip(Self, a, b), NewSample)

Split == \E t \in Times : Near(Self, t) /\ Called("split", split(Self, t), NewSample)

AddSilence == \E t \in Times, at_start \in BOOLEAN : Near(Self, t) /\ Called("add_silence", add_silence(Self, t, at_start), NewSample)

Join == \E o \in Others(Self) : Called("join", join(Self, o), o)

Delay == \E t \in Times, keep_length \in BOOLEAN : Near(Self, t) /\ Called("delay", delay(Self, t, keep_length), NewSample)

Fadeout == \E t \in Times, v \in Volumes : Near(Self, t) /\ Called("fadeout", fadeout(Self, t, v), NewSample)

Fadein == \E t \in Times, v \in Volumes : Near(Self, t) /\ Called("fadein", fadein(Self, t, v), NewSample)

Mono == \E lf \in {R(0, 1), R(1, 1)} : Called("mono", mono(Self, lf, R(1, 1)), NewSample)

Stereo == \E rf \in {R(0, 1), R(1, 1)} : Called("stereo", stereo(Self, R(1, 1), rf), NewSample)

Pan == \E p \in Pannings, lfo \in BOOLEAN : Called("pan", pan(Self, p, lfo), NewSample)

Mix == \E o \in Others(Self), osec \in {T(0), T(1)}, pad \in BOOLEAN : Near(o, osec) /\ Called("mix", mix(Self, o, osec, pad), o)

MixAt == \E t \in Times, o \in Others(Self) : Near(Self, t) /\ Called("mix_at", mix_at(Self, t, o, T(0)), o)

Echo == \E len \in {T(1), T(MaxTime)}, amount \in {0, 2}, dly \in {T(-1), T(1)}, decay \in {R(1, 2), R(1, 1)} : Near(Self, len) /\ Near(Self, dly) /\ Called("echo", echo(Self, len, amount, dly, decay), NewSample)

Envelope == \E a \in {T(0), T(1)}, d \in {T(0), T(1)}, sl \in {R(1, 2), R(1, 1)}, rl \in {T(0), T(1)} : Near(Self, a) /\ Called("envelope", envelope(Self, a, d, sl, rl), NewSample)

NextSample ==
    \/ Construct \/ FromRawFrames \/ InitWaveFile
    \/ Lock \/ SetSamplerate \/ CopyFrom \/ LoadWav \/ Resample \/ Speed
    \/ Amplify \/ Make32bit \/ Make16bit \/ Clip \/ Split \/ AddSilence \/ Join
    \/ Delay \/ Fadeout \/ Fadein \/ Mono \/ Stereo \/ Pan \/ Mix \/ MixAt
    \/ Echo \/ Envelope

\* ------------------------------------------------------ inputs of the Output
\* The threads that call the Output's methods.
Threads == {"t1", "t2"}

\* What the queue holds: a submitted Sample, or the None that close() puts.
\* Every submission carries the number it was given when it was submitted.
Item(id, s) == [id |-> id, token |-> FALSE, s |-> s]

Token(id) == [id |-> id, token |-> TRUE, s |-> NewSample]

\* A Sample of one frame at the Output's rate.
Tone(w, c) == [frames |-> RawFrames(c), none |-> FALSE, samplewidth |-> w, samplerate |-> norm_samplerate, nchannels |-> c, locked |-> FALSE]

\* The Samples offered to play_sample: one in the Output's format, the empty
\* Sample(), and one with another number of channels.
PlaySampleArgs == {Tone(2, 2), NewSample, Tone(2, 1)}

\* The lists of Samples offered to play_samples: a mono one, a 32 bit one
\* followed by a mono one, and a mono one followed by one at another rate.
StreamLists == {<<Tone(2, 1)>>, <<Tone(4, 2), Tone(2, 1)>>, <<Tone(2, 1), [Tone(2, 2) EXCEPT !.samplerate = 4]>>}

\* ------------------------------------------------------ pieces of the Output
\* Sample.__len__: the number of frames.
sample_len(s) == Len(s.frames) \div s.nchannels

\* bool(sample) in SoundOutputter.run: None is false, and so is a Sample
\* whose __len__() is 0.
Truthy(item) == ~item.token /\ sample_len(item.s) # 0

QueueNeverFull(q) == FALSE

\* queue.Queue.put blocks while the queue holds maxsize items.
QueueFull(q) == Len(q) >= QueueSize

\* queue.Queue.get blocks while the queue is empty, and takes the oldest item.
QueueEmpty(q) == q = <<>>

QueueGetNewest(q) == [item |-> q[Len(q)], rest |-> SubSeq(q, 1, Len(q) - 1)]

QueueGet(q) == [item |-> Head(q), rest |-> Tail(q)]

get_nowait_raises_early(q) == Len(q) <= 1

\* self.queue.get(block=False) in wipe_queue raises queue.Empty.
get_nowait_raises(q) == q = <<>>

\* Output.__init__: the outputter and its thread exist if pyaudio was imported.
has_outputter == worker # "none"

supports_streaming == has_outputter

\* The assertions of Output.play_sample, for an Output in the default format.
play_sample_asserts(s) == s.samplewidth = norm_samplewidth /\ s.samplerate = norm_samplerate /\ s.nchannels = norm_nchannels

\* Where Output.play_sample goes after its assertions.
play_sample_branch(outputter, async) == IF outputter THEN (IF async THEN "put" ELSE "imm") ELSE "winsound"

play_samples_streams(outputter) == "iter"

\* Where Output.play_samples goes.
play_samples_branch(outputter) == IF outputter THEN "iter" ELSE "RuntimeError"

\* One step of the generator Output.normalized_samples on its next input.
normalized_sample(s) ==
    LET amplified == amplify(s, R(global_amplification, 1))
        r1 == IF s.samplewidth # 2 THEN (IF amplified.ok THEN make_16bit(amplified.s, FALSE) ELSE amplified) ELSE Ok(s)
        r2 == IF ~r1.ok THEN r1 ELSE IF r1.s.nchannels = 1 THEN stereo(r1.s, R(1, 1), R(1, 1)) ELSE r1
    IN  IF ~r2.ok THEN r2
        ELSE IF r2.s.nchannels # 2 \/ r2.s.samplerate # 44100 \/ r2.s.samplewidth # 2 THEN Err(r2.s, "AssertionError")
        ELSE r2

\* A call in progress or completed: the method, its async argument, the item
\* it is submitting, the number of that item, the inputs of play_samples not
\* yet consumed, whether close() had returned when the call was made, and the
\* numbers that were in the queue when the call was made.
Call(name, async, item, rest) == [op |-> name, async |-> async, item |-> item, rest |-> rest, after_close |-> closed, pending |-> IF name = "wipe_queue" THEN {queue[i].id : i \in 1..Len(queue)} ELSE {}]

NoCall == [op |-> "", async |-> FALSE, item |-> Item(0, NewSample), rest |-> <<>>, after_close |-> FALSE, pending |-> {}]

InitOutput ==
    /\ pyaudio \in BOOLEAN
    /\ worker = (IF pyaudio THEN "get" ELSE "none")
    /\ queue = <<>> /\ sample = Item(0, NewSample)
    /\ pcs = [t \in Threads |-> "idle"] /\ call = [t \in Threads |-> NoCall] /\ res = [t \in Threads |-> ""]
    /\ written = <<>> /\ fallback = <<>> /\ enq = <<>> /\ wiped = {}
    /\ wipe_lock = "" /\ closed = FALSE /\ wipe_returned = FALSE /\ next_id = 0
    /\ stream = pyaudio /\ audio = pyaudio

\* ---------------------------------------------------- actions of the Output
\* The record of a call that has ended keeps what was asked, not its locals.
Ended(c) == [c EXCEPT !.rest = <<>>, !.pending = {}, !.item = IF c.op = "play_sample" THEN c.item ELSE Item(c.item.id, NewSample)]

\* The call c of thread t returns, or raises, r.
Return(t, c, r) == pcs' = [pcs EXCEPT ![t] = "idle"] /\ res' = [res EXCEPT ![t] = r] /\ call' = [call EXCEPT ![t] = Ended(c)]

\* Thread t moves on to position p inside its call c.
Goto(t, c, p) == pcs' = [pcs EXCEPT ![t] = p] /\ res' = res /\ call' = [call EXCEPT ![t] = c]

\* SoundOutputter.run: sample = self.queue.get(); if not sample: break
WorkerGet ==
    /\ worker = "get" /\ ~QueueEmpty(queue)
    /\ sample' = QueueGet(queue).item /\ queue' = QueueGet(queue).rest
    /\ worker' = (IF Truthy(QueueGet(queue).item) THEN "write" ELSE "done")
    /\ UNCHANGED <<sampleVars, before, args, meter, stream, audio, pyaudio, pcs, call, res, written, fallback, enq, wiped, wipe_lock, closed, wipe_returned, next_id>>

\* SoundOutputter.run: sample.write_frames(self.stream), from the moment the
\* frames are handed to the stream until stream.write returns.
WorkerWrite ==
    /\ worker = "write"
    /\ written' = Append(written, [id |-> sample.id, by |-> "worker", filler |-> FALSE])
    /\ worker' = "writing"
    /\ UNCHANGED <<sampleVars, before, args, meter, stream, audio, pyaudio, queue, sample, pcs, call, res, fallback, enq, wiped, wipe_lock, closed, wipe_returned, next_id>>

WorkerWritten ==
    /\ worker = "writing"
    /\ worker' = "get"
    /\ UNCHANGED <<sampleVars, before, args, meter, stream, audio, pyaudio, queue, sample, pcs, call, res, written, fallback, enq, wiped, wipe_lock, closed, wipe_returned, next_id>>

\* Output.play_sample(s, async) up to the point where it enqueues or writes.
PlaySample(t) ==
    \E s \in PlaySampleArgs, async \in BOOLEAN :
        LET c == Call("play_sample", async, Item(next_id + 1, s), <<>>)
        IN  /\ pcs[t] = "idle" /\ next_id < MaxItems
            /\ next_id' = next_id + 1
            /\ IF ~play_sample_asserts(s) THEN Return(t, c, "AssertionError") /\ fallback' = fallback
               ELSE IF play_sample_branch(has_outputter, async) = "winsound" THEN Return(t, c, "ok") /\ fallback' = Append(fallback, c.item.id)
               ELSE Goto(t, c, play_sample_branch(has_outputter, async)) /\ fallback' = fallback
            /\ UNCHANGED <<sampleVars, before, args, meter, stream, audio, pyaudio, queue, worker, sample, written, enq, wiped, wipe_lock, closed, wipe_returned>>

\* Output.play_samples(samples, async) up to the start of its loop.
PlaySamples(t) ==
    \E samples \in StreamLists, async \in BOOLEAN :
        LET c == Call("play_samples", async, Item(next_id, NewSample), samples)
        IN  /\ pcs[t] = "idle" /\ next_id + Len(samples) <= MaxItems
            /\ next_id' = next_id + Len(samples)
            /\ IF play_samples_branch(has_outputter) = "iter" THEN Goto(t, c, "iter") ELSE Return(t, c, play_samples_branch(has_outputter))
            /\ UNCHANGED <<sampleVars, before, args, meter, stream, audio, pyaudio, queue, worker, sample, written, fallback, enq, wiped, wipe_lock, closed, wipe_returned>>

\* The loop of play_samples asks normalized_samples for the next Sample.
NextSampleOfStream(t) ==
    /\ pcs[t] = "iter"
    /\ IF call[t].rest = <<>> THEN Return(t, call[t], "ok")
       ELSE \E r \in {normalized_sample(Head(call[t].rest))} :
                IF ~r.ok THEN Return(t, call[t], r.exc)
                ELSE Goto(t, [call[t] EXCEPT !.item = Item(call[t].item.id + 1, r.s), !.rest = Tail(call[t].rest)], IF call[t].async THEN "put" ELSE "imm")
    /\ UNCHANGED <<sampleVars, before, args, meter, stream, audio, pyaudio, queue, worker, sample, written, fallback, enq, wiped, wipe_lock, closed, wipe_returned, next_id>>

\* Output.close(): self.outputter.add_to_queue(None), if there is an outputter.
Close(t) ==
    LET c == Call("close", FALSE, Token(next_id + 1), <<>>)
    IN  /\ pcs[t] = "idle" /\ next_id < MaxItems
        /\ next_id' = next_id + 1
        /\ IF has_outputter THEN Goto(t, c, "put") /\ closed' = closed
           ELSE Return(t, c, "ok") /\ closed' = TRUE
        /\ UNCHANGED <<sampleVars, before, args, meter, stream, audio, pyaudio, queue, worker, sample, written, fallback, enq, wiped, wipe_lock, wipe_returned>>

\* SoundOutputter.add_to_queue: self.queue.put(item) finds the queue full and
\* waits for room.
PutWait(t) ==
    /\ pcs[t] = "put" /\ QueueFull(queue)
    /\ Goto(t, call[t], "put_wait")
    /\ UNCHANGED <<sampleVars, before, args, meter, stream, audio, pyaudio, queue, worker, sample, written, fallback, enq, wiped, wipe_lock, closed, wipe_returned, next_id>>

\* SoundOutputter.add_to_queue: self.queue.put(item) returns once there is room.
Put(t) ==
    /\ pcs[t] \in {"put", "put_wait"} /\ ~QueueFull(queue)
    /\ queue' = Append(queue, call[t].item)
    /\ enq' = Append(enq, [id |-> call[t].item.id, waited |-> pcs[t] = "put_wait", after_wipe |-> wipe_returned])
    /\ IF call[t].op = "play_samples" THEN Goto(t, call[t], "iter") ELSE Return(t, call[t], "ok")
    /\ closed' = (closed \/ call[t].op = "close")
    /\ UNCHANGED <<sampleVars, before, args, meter, stream, audio, pyaudio, worker, sample, written, fallback, wiped, wipe_lock, wipe_returned, next_id>>

\* SoundOutputter.play_immediately: sample.write_frames(self.stream), from the
\* moment the frames are handed to the stream until stream.write returns.
ImmediateWrite(t) ==
    /\ pcs[t] = "imm"
    /\ written' = Append(written, [id |-> call[t].item.id, by |-> t, filler |-> FALSE])
    /\ Goto(t, call[t], "imm_writing")
    /\ UNCHANGED <<sampleVars, before, args, meter, stream, audio, pyaudio, queue, worker, sample, fallback, enq, wiped, wipe_lock, closed, wipe_returned, next_id>>

\* play_samples passes continuous=True and goes on with its loop.
ImmediateWritten(t) ==
    /\ pcs[t] = "imm_writing"
    /\ Goto(t, call[t], IF call[t].op = "play_samples" THEN "iter" ELSE "filler")
    /\ UNCHANGED <<sampleVars, before, args, meter, stream, audio, pyaudio, queue, worker, sample, written, fallback, enq, wiped, wipe_lock, closed, wipe_returned, next_id>>

\* SoundOutputter.play_immediately, not continuous: self.stream.write(filler).
FillerWrite(t) ==
    /\ pcs[t] = "filler"
    /\ written' = Append(written, [id |-> call[t].item.id, by |-> t, filler |-> TRUE])
    /\ Return(t, call[t], "ok")
    /\ UNCHANGED <<sampleVars, before, args, meter, stream, audio, pyaudio, queue, worker, sample, fallback, enq, wiped, wipe_lock, closed, wipe_returned, next_id>>

\* Output.wipe_queue(): self.outputter.wipe_queue(), up to the lock.
WipeQueue(t) ==
    LET c == Call("wipe_queue", FALSE, Item(next_id + 1, NewSample), <<>>)
    IN  /\ pcs[t] = "idle" /\ next_id < MaxItems
        /\ next_id' = next_id + 1
        /\ IF has_outputter THEN Goto(t, c, "wipe_lock") ELSE Return(t, c, "AttributeError")
        /\ UNCHANGED <<sampleVars, before, args, meter, stream, audio, pyaudio, queue, worker, sample, written, fallback, enq, wiped, wipe_lock, closed, wipe_returned>>

\* with self._wipe_lock:
WipeAcquire(t) ==
    /\ pcs[t] = "wipe_lock" /\ wipe_lock = ""
    /\ wipe_lock' = t
    /\ Goto(t, call[t], "wipe")
    /\ UNCHANGED <<sampleVars, before, args, meter, stream, audio, pyaudio, queue, worker, sample, written, fallback, enq, wiped, closed, wipe_returned, next_id>>

\* while True: self.queue.get(block=False)
WipeGet(t) ==
    /\ pcs[t] = "wipe" /\ ~get_nowait_raises(queue)
    /\ queue' = QueueGet(queue).rest
    /\ wiped' = wiped \cup {QueueGet(queue).item.id}
    /\ UNCHANGED <<sampleVars, before, args, meter, stream, audio, pyaudio, worker, sample, pcs, call, res, written, fallback, enq, wipe_lock, closed, wipe_returned, next_id>>

\* except queue.Empty: pass, and the lock is released.
WipeDone(t) ==
    /\ pcs[t] = "wipe" /\ get_nowait_raises(queue)
    /\ wipe_lock' = ""
    /\ wipe_returned' = TRUE
    /\ Return(t, call[t], "ok")
    /\ UNCHANGED <<sampleVars, before, args, meter, stream, audio, pyaudio, queue, worker, sample, written, fallback, enq, wiped, closed, next_id>>

NextOutput ==
    \/ WorkerGet \/ WorkerWrite \/ WorkerWritten
    \/ \E t \in Threads :
        \/ PlaySample(t) \/ PlaySamples(t) \/ NextSampleOfStream(t) \/ Close(t) \/ PutWait(t) \/ Put(t)
        \/ ImmediateWrite(t) \/ ImmediateWritten(t) \/ FillerWrite(t)
        \/ WipeQueue(t) \/ WipeAcquire(t) \/ WipeGet(t) \/ WipeDone(t)

\* -------------------------------------------------------------- the program
\* A Sample and the calls made on it, beside an Output that nothing uses.
\* No single call under observation, and a LevelMeter nobody uses.
InitIdle == before = NewSample /\ args = <<>> /\ meter = LevelMeter(FALSE, R(-60, 1))

SampleInit == InitSample /\ InitOutput /\ ~pyaudio /\ InitIdle

SpecSample == SampleInit /\ [][NextSample]_vars

\* An Output and the threads that use it, beside a Sample not yet constructed.
Init == InitSample /\ InitOutput /\ InitIdle

SpecOutput == Init /\ [][NextOutput]_vars

\* The steps of SoundOutputter.run, the worker thread.
Worker == WorkerGet \/ WorkerWrite \/ WorkerWritten

\* The steps thread t takes inside a play_sample, close or wipe_queue call it
\* has made; making a call is the caller's choice and is not among them.
Running(t) ==
    \/ PutWait(t) \/ Put(t)
    \/ ImmediateWrite(t) \/ ImmediateWritten(t) \/ FillerWrite(t)
    \/ WipeAcquire(t) \/ WipeGet(t) \/ WipeDone(t)

\* An Output whose callers use play_sample, close and wipe_queue.
NextClose == Worker \/ \E t \in Threads : PlaySample(t) \/ Close(t) \/ WipeQueue(t) \/ Running(t)

\* Fair scheduling of the threads and a device that completes every write:
\* the worker and every thread inside a call take their next step when it
\* stays possible. A queue.get() on an empty queue and a queue.put() on a
\* full one are not possible steps.
FairScheduling == WF_vars(Worker) /\ \A t \in Threads : WF_vars(Running(t))

SpecClose == Init /\ [][NextClose]_vars /\ FairScheduling

\* ------------------------------------------- single calls on a given Sample
\* The buffers offered to a single call on a Sample of width w: the ramp of
\* from_raw_frames, two of constant amplitude, and three holding an extreme
\* or a negative peak.
CallFrames(w) ==
    {RawFrames(n) : n \in 0..MaxLen}
    \cup {[i \in 1..n |-> 2] : n \in {2, MaxLen}}
    \cup {<<v, 3>> : v \in {MinVal(w), -7, MaxVal(w)}}

\* The Samples a single call is made on: unlocked, of every width and
\* channel count, at a low rate and at the Output's rate.
CallSamples == UNION {{[frames |-> f, none |-> FALSE, samplewidth |-> w, samplerate |-> r, nchannels |-> c, locked |-> FALSE] : f \in {g \in CallFrames(w) : Len(g) % c = 0}, r \in {2, norm_samplerate}} : w \in 2..4, c \in 1..2}

\* A Sample that some constructor has returned, before any call on it.
CallInit ==
    /\ \E s \in CallSamples : frames = s.frames /\ frames_none = s.none /\ samplewidth = s.samplewidth /\ samplerate = s.samplerate /\ nchannels = s.nchannels /\ locked = s.locked /\ before = s
    /\ pc = "live" /\ op = "" /\ exc = "" /\ other = NewSample /\ nops = 0 /\ args = <<>>
    /\ InitOutput /\ ~pyaudio /\ meter = LevelMeter(FALSE, R(-60, 1))

\* A method called with the arguments a returns self, or raises, leaving the
\* Sample as r.s; the Sample as it was and the arguments are kept beside it.
Applied(name, a, r, o) ==
    /\ pc = "live" /\ nops < MaxOps
    /\ SetSelf(r.s) /\ pc' = pc
    /\ op' = name /\ exc' = r.exc /\ other' = o /\ nops' = nops + 1
    /\ before' = Self /\ args' = a
    /\ UNCHANGED <<outVars, meter>>

NormalizedSamples == Applied("normalized_samples", <<>>, normalized_sample(Self), NewSample)

AmplifyMaxCall == Applied("amplify_max", <<>>, amplify_max(Self), NewSample)

MixCall == \E o \in Others(Self), pad \in BOOLEAN : Applied("mix", <<pad>>, mix(Self, o, R(0, 1), pad), o)

MixAtCall == \E t \in Times, o \in Others(Self) : Near(Self, t) /\ Applied("mix_at", <<t>>, mix_at(Self, t, o, R(0, 1)), o)

FadeinCall == \E t \in {T(1), T(MaxTime)}, v \in Volumes : Near(Self, t) /\ Applied("fadein", <<t, v>>, fadein(Self, t, v), NewSample)

FadeoutCall == \E t \in {T(1), T(MaxTime)}, v \in Volumes : Near(Self, t) /\ Applied("fadeout", <<t, v>>, fadeout(Self, t, v), NewSample)

EnvelopeCall == \E a \in {T(0), T(1)}, d \in {T(0), T(1)}, sl \in {R(1, 2), R(1, 1)}, rl \in {T(0), T(1)} : Near(Self, a) /\ Applied("envelope", <<a, d, sl, rl>>, envelope(Self, a, d, sl, rl), NewSample)

EchoCall == \E len \in {T(1), T(MaxTime)}, amount \in 0..2, dly \in {T(1)}, decay \in {R(1, 4), R(1, 2)} : Near(Self, len) /\ Applied("echo", <<len, amount, dly, decay>>, echo(Self, len, amount, dly, decay), NewSample)

NextCall ==
    \/ NormalizedSamples \/ AmplifyMaxCall \/ MixCall \/ MixAtCall
    \/ FadeinCall \/ FadeoutCall \/ EnvelopeCall \/ EchoCall

SpecCall == CallInit /\ [][NextCall]_vars

\* ------------------------------------------------- a LevelMeter being fed
\* The fragments offered to LevelMeter.process: 16 bit, four frames a
\* second; mono ones of a quarter or half a second that are silent, soft or
\* at full scale, and stereo ones of a quarter second with each channel
\* silent or at full scale.
Fragments ==
    {[frames |-> [i \in 1..n |-> v], none |-> FALSE, samplewidth |-> 2, samplerate |-> 4, nchannels |-> 1, locked |-> FALSE] : n \in 1..2, v \in {0, 1, MinVal(2)}}
    \cup {[frames |-> <<l, r>>, none |-> FALSE, samplewidth |-> 2, samplerate |-> 4, nchannels |-> 2, locked |-> FALSE] : l \in {0, MinVal(2)}, r \in {0, MinVal(2)}}

\* A LevelMeter as its constructor leaves it, in either mode.
MeterInit ==
    /\ \E rms_mode \in BOOLEAN, lowest \in {R(-60, 1), R(-40, 1)} : meter = LevelMeter(rms_mode, lowest)
    /\ InitSample /\ InitOutput /\ ~pyaudio /\ before = NewSample /\ args = <<>>

Process ==
    \E s \in Fragments :
        /\ nops < MaxFragments
        /\ meter' = process(meter, s).m
        /\ op' = "process" /\ exc' = process(meter, s).exc /\ args' = <<s>> /\ nops' = nops + 1
        /\ UNCHANGED <<frames, frames_none, samplewidth, samplerate, nchannels, locked, pc, other, outVars, before>>

Reset ==
    /\ nops < MaxFragments
    /\ meter' = reset(meter)
    /\ op' = "reset" /\ exc' = "" /\ args' = <<>> /\ nops' = nops + 1
    /\ UNCHANGED <<frames, frames_none, samplewidth, samplerate, nchannels, locked, pc, other, outVars, before>>

NextMeter == Process \/ Reset

SpecMeter == MeterInit /\ [][NextMeter]_vars

Next == NextSample \/ NextOutput \/ NextCall \/ NextMeter \/ NextClose

Spec == Init /\ [][Next]_vars

\* =============================================================== properties
\* The operations that change frames, samplewidth, samplerate or nchannels.
MutatingOps == {"amplify", "mix", "mix_at", "clip", "split", "join", "add_silence", "delay", "fadein", "fadeout", "envelope", "echo", "pan", "stereo", "mono", "resample", "speed", "make_16bit", "make_32bit", "copy_from", "load_wav", "samplerate"}

\* C1: once a Sample is locked, every later call of a mutating operation
\* raises and leaves frames, samplewidth, samplerate and nchannels as they
\* were, and the locked flag stays true.
C1_LockedSampleIsFrozen == [][locked => (locked' /\ (op' \in MutatingOps => (exc' # "" /\ frames' = frames /\ frames_none' = frames_none /\ samplewidth' = samplewidth /\ samplerate' = samplerate /\ nchannels' = nchannels)))]_vars

\* The buffer is a buffer, and it holds a whole number of frames.
WholeFrames == ~frames_none /\ Len(frames) % nchannels = 0

BufferOps == {"mix", "mix_at", "add_silence", "clip", "split", "join", "delay", "fadein", "fadeout", "envelope", "echo", "mono", "stereo", "pan", "make_16bit", "make_32bit"}

\* C2: a buffer of whole frames is a buffer of whole frames after each of the
\* listed operations, whether the operation returns or raises.
C2_WholeFramesAfterEveryOperation == [][(WholeFrames /\ op' \in BufferOps) => WholeFrames']_vars

FormatDiffers(a, b) == a.samplewidth # b.samplewidth \/ a.samplerate # b.samplerate \/ a.nchannels # b.nchannels

\* C6: mix, mix_at and join with a Sample of another width, rate or number
\* of channels raise, and leave the frames and the format of self as they
\* were (the other Sample is only ever read).
C6_MismatchFailsUnchanged == [][(op' \in {"mix", "mix_at", "join"} /\ FormatDiffers(Self, other')) => (exc' # "" /\ frames' = frames /\ frames_none' = frames_none /\ samplewidth' = samplewidth /\ samplerate' = samplerate /\ nchannels' = nchannels /\ locked' = locked)]_vars

\* A mix_at of a Sample at another rate into an unlocked Sample with frames
\* has been refused.
C6_Witness == pc = "live" /\ op = "mix_at" /\ exc = "AssertionError" /\ ~locked /\ frames # <<>> /\ other.frames # <<>> /\ other.samplerate # samplerate /\ other.samplewidth = samplewidth /\ other.nchannels = nchannels

\* C7: a Sample that a constructor has returned has, at all times, a width of
\* 2, 3 or 4, one or two channels and a rate greater than 1.
C7_FormatInRange == pc = "live" => (samplewidth \in 2..4 /\ nchannels \in 1..2 /\ samplerate > 1)

\* The numbers of the enqueued items, in the order of their enqueueing.
EnqIds == [i \in 1..Len(enq) |-> enq[i].id]

\* What the worker thread wrote to the device, in the order of writing.
WorkerWrites == SelectSeq(written, LAMBDA e : e.by = "worker")

Pos(seq, x) == CHOOSE i \in 1..Len(seq) : seq[i] = x

\* C3: what was enqueued is written by the worker only, what wipe_queue
\* removed is not written, and the worker's writes follow the order of
\* enqueueing: no item twice, none before an earlier one, and none while an
\* earlier one that was not wiped is unwritten.
C3_WrittenInEnqueueOrder ==
    /\ \A i \in 1..Len(written) : (\E k \in 1..Len(enq) : enq[k].id = written[i].id) => written[i].by = "worker"
    /\ \A i \in 1..Len(WorkerWrites) : (\E k \in 1..Len(enq) : enq[k].id = WorkerWrites[i].id) /\ WorkerWrites[i].id \notin wiped
    /\ \A i \in 1..Len(WorkerWrites), j \in 1..Len(WorkerWrites) : i < j => Pos(EnqIds, WorkerWrites[i].id) < Pos(EnqIds, WorkerWrites[j].id)
    /\ \A i \in 1..Len(WorkerWrites) : \A k \in 1..(Pos(EnqIds, WorkerWrites[i].id) - 1) : EnqIds[k] \in wiped \/ (\E j \in 1..(i - 1) : WorkerWrites[j].id = EnqIds[k])

\* The worker has written three enqueued Samples, two of which were in the
\* queue together.
C3_Witness == Len(WorkerWrites) = 3 /\ \E i \in 1..Len(enq) : enq[i].waited

InPut(p) == p \in {"put", "put_wait"}

C5_WorkerExitsOnlyOnToken == worker = "done" => sample.token

\* C8: a play_sample or play_samples call made after close() has returned
\* does not return normally.
C8_PlayAfterCloseFails == \A t \in Threads : (pcs[t] = "idle" /\ call[t].op \in {"play_sample", "play_samples"} /\ call[t].after_close) => res[t] # "ok"

\* The numbers of the items the worker has taken from the queue.
TakenByWorker == {WorkerWrites[i].id : i \in 1..Len(WorkerWrites)} \cup {sample.id}

\* The worker's writes of items enqueued after a wipe_queue() returned.
WritesAfterWipe == SelectSeq(WorkerWrites, LAMBDA e : \E k \in 1..Len(enq) : enq[k].id = e.id /\ enq[k].after_wipe)

C10_QueuedPlaybackUnsupported == ~pyaudio => \A t \in Threads : (pcs[t] = "idle" /\ (call[t].op = "play_samples" \/ (call[t].op = "play_sample" /\ call[t].async))) => (res[t] # "ok" /\ \A i \in 1..Len(fallback) : fallback[i] # call[t].item.id)

\* C10, amended: without a backend supports_streaming is false, nothing is
\* ever enqueued or written to a device, play_samples raises RuntimeError in
\* either mode, and play_sample in either mode plays a Sample of the
\* Output's format through the whole-buffer fallback.
C10_NoBackendFallsBack ==
    ~pyaudio =>
        /\ ~supports_streaming /\ queue = <<>> /\ enq = <<>> /\ written = <<>>
        /\ \A t \in Threads :
            /\ pcs[t] = "idle"
            /\ call[t].op = "play_samples" => res[t] = "RuntimeError"
            /\ call[t].op = "play_sample" => IF play_sample_asserts(call[t].item.s)
                                             THEN res[t] = "ok" /\ \E i \in 1..Len(fallback) : fallback[i] = call[t].item.id
                                             ELSE res[t] = "AssertionError" /\ \A i \in 1..Len(fallback) : fallback[i] # call[t].item.id
        /\ \A i \in 1..Len(fallback), j \in 1..Len(fallback) : i < j => fallback[i] < fallback[j]

\* Without a backend a play_sample with async=True has played its Sample
\* through the fallback and a play_samples has raised.
C10_Witness == ~pyaudio /\ \E t \in Threads, u \in Threads : call[t].op = "play_sample" /\ call[t].async /\ res[t] = "ok" /\ (\E i \in 1..Len(fallback) : fallback[i] = call[t].item.id) /\ call[u].op = "play_samples" /\ res[u] = "RuntimeError"

\* C11: once close() has returned and the worker thread has exited, the Output
\* holds no open device stream and no open audio backend handle.
C11_CloseReleasesHandles == (closed /\ worker = "done") => (~stream /\ ~audio)

\* A Sample in the range of formats the Output accepts as input.
StreamInput(s) == ~s.locked /\ s.samplerate > 1 /\ s.samplewidth \in 2..4 /\ s.nchannels \in 1..2

\* C12: normalized_samples turns every unlocked input Sample with a rate
\* above 1, a width of 2, 3 or 4 and one or two channels into a Sample of
\* the canonical format: rate 44100, width 2, two channels.
C12_NormalizedToCanonicalFormat == (op = "normalized_samples" /\ StreamInput(before)) => (exc = "" /\ samplerate = norm_samplerate /\ samplewidth = norm_samplewidth /\ nchannels = norm_nchannels)

\* A buffer extended with zero samples, or cut, to n samples.
Padded(fr, n) == [i \in 1..n |-> IF i <= Len(fr) THEN fr[i] ELSE 0]

\* C13: mix of two Samples of one format succeeds; with pad_shortest the
\* result is as long as the longer buffer and is the sum, sample by sample
\* and within the range of the width, of the two buffers extended with
\* zeros; without pad_shortest it is that sum over the shorter length.
C13_MixPadsOrTruncates == (op = "mix" /\ ~before.none /\ SameFormat(before, other)) => (exc = "" /\ ~frames_none /\ Len(frames) = (IF args[1] THEN Max(Len(before.frames), Len(other.frames)) ELSE Min(Len(before.frames), Len(other.frames))) /\ \A i \in 1..Len(frames) : frames[i] = Fbound(Padded(before.frames, Len(frames))[i] + Padded(other.frames, Len(frames))[i], samplewidth))

\* C14: after amplify_max on an unlocked Sample every value lies in the
\* signed range of the width and the largest magnitude is at most the
\* maximum of the width less the margin (2^(8w-1) - 2 for bytes of 8 bits).
C14_AmplifyMaxKeepsMargin == (op = "amplify_max" /\ ~before.locked /\ ~before.none) => (exc = "" /\ FitsArray(frames, samplewidth) /\ AudioMax(frames) <= MaxVal(samplewidth) - 1)

\* The arguments of an envelope call fit the Sample it was made on: attack,
\* decay and release together are at most its duration.
EnvelopeFits == op = "envelope" /\ ~before.none /\ ~before.locked /\ before.samplerate > 0 /\ ~RLess(duration(before), RAdd(args[1], RAdd(args[2], args[4])))

\* C15: when attack + decay + release is at most the duration, the Sample
\* has as many frames after envelope as it had before the call.
C15_EnvelopeKeepsFrameCount == EnvelopeFits => (~frames_none /\ Len(frames) = Len(before.frames))

\* A buffer of one constant amplitude other than zero.
ConstantAmplitude(fr) == fr # <<>> /\ fr[1] # 0 /\ \A i \in 1..Len(fr) : fr[i] = fr[1]

\* C16: on a Sample of constant amplitude other than zero, fadein(T) from
\* volume 0 followed by fadeout(T) to volume 0, with 0 < T <= duration,
\* leaves the first and the last value of the buffer both 0.
C16_FadedEndsAreZero == [][(op = "fadein" /\ exc = "" /\ args[2] = R(0, 1) /\ ~before.none /\ ConstantAmplitude(before.frames) /\ args[1].n > 0 /\ ~RLess(duration(before), args[1]) /\ op' = "fadeout" /\ args' = args) => (exc' = "" /\ frames'[1] = 0 /\ frames'[Len(frames')] = 0)]_vars

\* A mix_at call at an offset of zero or more, on a Sample that has a buffer
\* and is not locked, with another Sample of the same format.
MixAtApplies == op = "mix_at" /\ ~before.none /\ ~before.locked /\ SameFormat(before, other) /\ args[1].n >= 0

\* Where the other Sample's values begin and end in the result of mix_at.
MixAtStart == frame_idx(before, args[1])

MixAtEnd == MixAtStart + Len(other.frames)

\* The claim of C17 as it was stated: the values in the overlap are the
\* plain sums of self's and other's values.
C17_MixAtPlainSum == MixAtApplies => (exc = "" /\ Len(frames) = Max(Len(before.frames), MixAtEnd) /\ \A i \in 1..Len(frames) : frames[i] = Padded(before.frames, Len(frames))[i] + (IF MixAtStart < i /\ i <= MixAtEnd THEN other.frames[i - MixAtStart] ELSE 0))

\* C17: mix_at(t, other) with t >= 0 and start = frame_idx(t) returns a
\* buffer of max(len(self), start + len(other)) samples; self is extended
\* with zeros if needed, the samples before start and from start + len(other)
\* on are unchanged, and every sample of the overlap is the sum of self's
\* and other's sample limited to the signed range of the width; for t = 0
\* the result is that of mix(other).
C17_MixAtSaturatingSum == MixAtApplies => (exc = "" /\ ~frames_none /\ Len(frames) = Max(Len(before.frames), MixAtEnd) /\ (\A i \in 1..Len(frames) : frames[i] = (IF MixAtStart < i /\ i <= MixAtEnd THEN Fbound(Padded(before.frames, Len(frames))[i] + other.frames[i - MixAtStart], samplewidth) ELSE Padded(before.frames, Len(frames))[i])) /\ (args[1].n = 0 => Self = mix(before, other, R(0, 1), TRUE).s))

\* A mix_at at a later offset that overlaps the end of self and grows it.
C17_Witness == MixAtApplies /\ exc = "" /\ 0 < MixAtStart /\ MixAtStart < Len(before.frames) /\ Len(before.frames) < MixAtEnd /\ Len(frames) = MixAtEnd

\* The buffer C18 describes: the segment `ech` is multiplied by decay once
\* per repetition, so that the k-th echo is the trailing segment scaled by
\* decay^k, and is mixed in k * dly seconds after `at`, the start of the
\* trailing segment; no echo is mixed once decay^k is below one step of the
\* width, or after `k` more echoes.
RECURSIVE EchoesAsClaimed(_, _, _, _, _, _, _)
EchoesAsClaimed(s, ech, amp, at, dly, decay, k) ==
    IF k = 0 \/ RLess(amp, R(1, 2^(ByteBits * s.samplewidth - 1))) THEN s.frames
    ELSE EchoesAsClaimed(mix_at(s, RAdd(at, dly), [s EXCEPT !.frames = AudioMul(ech, s.samplewidth, decay)], R(0, 1)).s, AudioMul(ech, s.samplewidth, decay), RMul(amp, decay), RAdd(at, dly), dly, decay, k - 1)

\* Where the trailing segment of an echo call begins, in seconds.
EchoStart == RMax(R(0, 1), RSub(duration(before), args[1]))

\* C18: echo(length, amount, delay, decay) mixes into the Sample, for
\* k = 1, 2, ..., the trailing segment scaled by decay^k at k * delay
\* seconds after the start of that segment, at most `amount` times and
\* never with a factor below one quantization step of the width.
C18_EchoDecaysOncePerRepetition == (op = "echo" /\ exc = "" /\ ~before.none /\ ~before.locked) => frames = EchoesAsClaimed(before, SliceFrom(before.frames, frame_idx(before, EchoStart)), args[4], EchoStart, args[3], args[4], args[2])

\* The integer v is n/d rounded to the nearest integer, d > 0; a tie may go
\* either way.
Nearest(v, n, d) == 2 * Abs(v * d - n) <= d

\* The number of samples a fade call leaves alone: those before the faded
\* region of fadeout, those after the faded region of fadein.
FadeKept == IF op = "fadeout" THEN frame_idx(before, RSub(duration(before), RMin(args[1], duration(before)))) ELSE Len(before.frames) - frame_idx(before, RMin(args[1], duration(before)))

FadeLen == Len(before.frames) - FadeKept

\* C20: fadein and fadeout keep the length of the buffer and every sample
\* outside the faded region, and replace sample j (from 0) of the n faded
\* samples by its value times the linear ramp factor at j, rounded to the
\* nearest integer: the factor is 1 - (j/n)(1 - volume) for fadeout and
\* (j/n)(1 - volume) + volume for fadein.
C20_FadeRoundsToNearest == (op \in {"fadein", "fadeout"} /\ ~before.none /\ ~before.locked /\ before.samplerate > 0) => (exc = "" /\ ~frames_none /\ Len(frames) = Len(before.frames) /\ \A i \in 1..Len(frames) : IF op = "fadeout" THEN (IF i <= FadeKept THEN frames[i] = before.frames[i] ELSE Nearest(frames[i], before.frames[i] * (FadeLen * args[2].d - (i - FadeKept - 1) * (args[2].d - args[2].n)), FadeLen * args[2].d)) ELSE (IF i > FadeLen THEN frames[i] = before.frames[i] ELSE Nearest(frames[i], before.frames[i] * ((i - 1) * (args[2].d - args[2].n) + args[2].n * FadeLen), FadeLen * args[2].d)))

\* One channel across a process call of `dur` seconds ending at time `now`:
\* the peak `peak`, set at time `hold`, is first lowered by 30 dB per second
\* of dur exactly if now - hold exceeds 0.4 s; the level `level` then becomes
\* the peak, set at `now`, exactly if it is at least that lowered peak.
ChannelFollows(peak, hold, level, peak2, hold2, now, dur) ==
    LET lowered == IF RLess(R(2, 5), RSub(now, hold)) THEN RSub(peak, RMul(R(30, 1), dur)) ELSE peak
    IN  /\ ~RLess(level, lowered) => (peak2 = level /\ hold2 = now)
        /\ RLess(level, lowered) => (peak2 = lowered /\ hold2 = hold)

\* On a silent channel the level is `lowest`, and once the hold has passed
\* the peak falls by 30 dB per second of dur as long as that stays above
\* `lowest`.
SilenceDecays(values, lowest, peak, hold, level2, peak2, now, dur) ==
    AudioMax(values) = 0 =>
        /\ level2 = lowest
        /\ (RLess(R(2, 5), RSub(now, hold)) /\ RLess(lowest, RSub(peak, RMul(R(30, 1), dur)))) => peak2 = RSub(peak, RMul(R(30, 1), dur))

\* The values of the left and of the right channel of a fragment.
ChannelValues(s, right_channel) == IF s.nchannels = 1 THEN s.frames ELSE [i \in 1..(Len(s.frames) \div 2) |-> s.frames[2 * i - (IF right_channel THEN 0 ELSE 1)]]

\* C19: every LevelMeter.process call advances the meter's time by the
\* fragment's duration and, for each channel, floors the level at `lowest`,
\* lowers the held peak by 30 dB per second of that duration if and only if
\* more than 0.4 s have passed since the peak was set, and then makes the
\* level the new peak, held from the current time, if it is at least the
\* lowered peak; on a silent fragment the level is `lowest` and the peak
\* falls at 30 dB/s once the hold has passed.
C19_PeakHoldAndDecay == [][(op' = "process" /\ exc' = "") => (/\ meter'.time = RAdd(meter.time, duration(args'[1]))
                                                            /\ meter'.level_left = RMax(db_level(args'[1], meter.rms)[1], meter.lowest)
                                                            /\ meter'.level_right = RMax(db_level(args'[1], meter.rms)[2], meter.lowest)
                                                            /\ ChannelFollows(meter.peak_left, meter.peak_left_hold, meter'.level_left, meter'.peak_left, meter'.peak_left_hold, meter'.time, duration(args'[1]))
                                                            /\ ChannelFollows(meter.peak_right, meter.peak_right_hold, meter'.level_right, meter'.peak_right, meter'.peak_right_hold, meter'.time, duration(args'[1]))
                                                            /\ SilenceDecays(ChannelValues(args'[1], FALSE), meter.lowest, meter.peak_left, meter.peak_left_hold, meter'.level_left, meter'.peak_left, meter'.time, duration(args'[1]))
                                                            /\ SilenceDecays(ChannelValues(args'[1], TRUE), meter.lowest, meter.peak_right, meter.peak_right_hold, meter'.level_right, meter'.peak_right, meter'.time, duration(args'[1]))
                                                            /\ meter'.lowest = meter.lowest /\ meter'.rms = meter.rms)]_vars

\* A silent fragment has just lowered a left peak whose hold had passed: the
\* peak lies strictly between `lowest` and every level a fragment can have
\* set it to, and was set more than 0.4 s ago.
C19_Witness == op = "process" /\ exc = "" /\ AudioMax(ChannelValues(args[1], FALSE)) = 0 /\ meter.level_left = meter.lowest /\ RLess(meter.lowest, meter.peak_left) /\ RLess(R(2, 5), RSub(meter.time, meter.peak_left_hold)) /\ meter.peak_left.d # 1

\* C21: once close() has returned on an Output that has a device backend,
\* the worker thread eventually exits, whatever add_to_queue and wipe_queue
\* calls the other threads make before, during or after it.
C21_WorkerExitsAfterClose == (pyaudio /\ closed) ~> (worker = "done")

\* C22: a write to the device stream made by a caller thread in immediate
\* mode (play_immediately, from play_sample or play_samples) is never in
\* progress while a write made by the worker thread is in progress.
C22_NoOverlappingStreamWrites == ~(worker = "writing" /\ \E t \in Threads : pcs[t] = "imm_writing")

====
